---- MODULE Spec2Model ----
(***************************************************************************)
(* wp_to_org2blog.py: conversion of a WordPress export (WXR) into org-mode *)
(* files.  The module models main() as a state machine (parse, extract one *)
(* item at a time, render one post at a time, close), and the helpers      *)
(* link_to_file and the tag/category collection as operators that are also *)
(* exercised on their own input sets.                                      *)
(*                                                                         *)
(* Text is a sequence of one-character strings.  Python's None is the      *)
(* one-element sequence None below, which no text equals because its only  *)
(* element has more than one character.  Literal template fragments are    *)
(* kept as single multi-character elements; they are only concatenated.    *)
(***************************************************************************)
EXTENDS Integers, Sequences, FiniteSets, TLC

VARIABLES
    doc,        \* the parsed export: the sequence of its item elements
    args,       \* argparse result: buffer, prefix_date, level, out_file
    fs,         \* the filesystem: existing directories and files with content
    pc,         \* position of main()
    run,        \* how many times main() has been started on this input
    idx,        \* loop index of xml_to_list / blog_to_org
    blog,       \* xml_to_list's list of posts (kept as returned)
    blog_list,  \* main()'s list, whose posts blog_to_org overwrites in place
    org_file,   \* blog_to_org's local file handle
    err,        \* the exception that ended the run and the call it left
    conv,       \* the last invocation of the external converter
    fsops,      \* what blog_to_org did for each post of this run
    prev,       \* outcome and filesystem of the previous run
    log,        \* the logging calls of this run
    call        \* a helper applied on its own: its arguments and result

vars == <<doc, args, fs, pc, run, idx, blog, blog_list, org_file, err, conv, fsops, prev, log, call>>

mainVars == <<doc, args, fs, pc, run, idx, blog, blog_list, org_file, err, conv, fsops, prev, log>>

-----------------------------------------------------------------------------
(* Python values *)

None == <<"<None>">>

EmptyStr == <<>>

Ok(v) == [raised |-> "none", value |-> v]

Raise(e) == [raised |-> e, value |-> None]

\* '%s' % x
Str(x) == IF x = None THEN <<"N", "o", "n", "e">> ELSE x

\* the printable ASCII characters, code 32 to 126 (the grave accent, which a
\* string cannot hold, by its name)
ASCII ==
    <<" ", "!", "\"", "#", "$", "%", "&", "'", "(", ")", "*", "+", ",", "-", ".", "/", "0",
        "1", "2", "3", "4", "5", "6", "7", "8", "9", ":", ";", "<", "=", ">", "?", "@", "A",
        "B", "C", "D", "E", "F", "G", "H", "I", "J", "K", "L", "M", "N", "O", "P", "Q", "R",
        "S", "T", "U", "V", "W", "X", "Y", "Z", "[", "\\", "]", "^", "_">>
    \o <<"GRAVE">> \o <<"a", "b", "c", "d", "e", "f", "g", "h", "i", "j", "k", "l", "m", "n",
        "o", "p", "q", "r", "s", "t", "u", "v", "w", "x", "y", "z", "{", "|", "}", "~">>

\* ord(c) for the characters the model uses
Ord(c) ==
    CASE c = "\n" -> 10
      [] c = "\r" -> 13
      [] OTHER -> 31 + (CHOOSE i \in 1..Len(ASCII) : ASCII[i] = c)

\* chr(n); bytes that are no printable ASCII decode (errors='replace') to one
\* replacement character here
Chr(n) ==
    IF n \in 32..126 THEN ASCII[n - 31]
    ELSE IF n = 10 THEN "\n"
    ELSE IF n = 13 THEN "\r"
    ELSE "U+FFFD"

IsDigit(c) == c \in {"0", "1", "2", "3", "4", "5", "6", "7", "8", "9"}

IsLetter(c) == c \in {ASCII[i] : i \in (34..59) \cup (66..91)}

IsHex(c) == IsDigit(c) \/ c \in {"a", "b", "c", "d", "e", "f", "A", "B", "C", "D", "E", "F"}

HexVal(c) ==
    IF IsDigit(c) THEN Ord(c) - 48
    ELSE IF Ord(c) >= 97 THEN Ord(c) - 87
    ELSE Ord(c) - 55

\* s.find(pat, from): the first index >= from where pat occurs, 0 if none
FirstOf(hits) == IF hits = {} THEN 0 ELSE CHOOSE i \in hits : \A j \in hits : i <= j

Find(s, pat, from) ==
    FirstOf({i \in from..(Len(s) - Len(pat) + 1) : SubSeq(s, i, i + Len(pat) - 1) = pat})

\* pat in s
Contains(s, pat) == Find(s, pat, 1) # 0

\* s.split(sep)
RECURSIVE Split(_, _)
SplitAt(s, sep, i) ==
    IF i = 0 THEN <<s>>
    ELSE <<SubSeq(s, 1, i - 1)>> \o Split(SubSeq(s, i + Len(sep), Len(s)), sep)

Split(s, sep) == SplitAt(s, sep, Find(s, sep, 1))

\* s.replace(old, new)
RECURSIVE Replace(_, _, _)
ReplaceAt(s, old, new, i) ==
    IF i = 0 THEN s
    ELSE SubSeq(s, 1, i - 1) \o new \o Replace(SubSeq(s, i + Len(old), Len(s)), old, new)

Replace(s, old, new) == ReplaceAt(s, old, new, Find(s, old, 1))

\* sep.join(list)
RECURSIVE Join(_, _)
Join(sep, list) ==
    IF list = <<>> THEN <<>>
    ELSE IF Len(list) = 1 THEN list[1]
    ELSE list[1] \o sep \o Join(sep, Tail(list))

\* c * n
RECURSIVE Repeat(_, _)
Repeat(c, n) == IF n <= 0 THEN <<>> ELSE <<c>> \o Repeat(c, n - 1)

IsSpace(c) == c \in {" ", "\n", "\r", "\t"}

\* s.strip()
RECURSIVE Strip(_)
Strip(s) ==
    IF s = <<>> THEN s
    ELSE IF IsSpace(s[1]) THEN Strip(Tail(s))
    ELSE IF IsSpace(s[Len(s)]) THEN Strip(SubSeq(s, 1, Len(s) - 1))
    ELSE s

\* urllib.parse.unquote: every %XX with two hex digits becomes the character
\* of that code, anything else is kept
RECURSIVE unquote(_)
unquote(s) ==
    IF s = <<>> THEN <<>>
    ELSE IF s[1] = "%" /\ Len(s) >= 3 /\ IsHex(s[2]) /\ IsHex(s[3])
         THEN <<Chr(16 * HexVal(s[2]) + HexVal(s[3]))>> \o unquote(SubSeq(s, 4, Len(s)))
         ELSE <<s[1]>> \o unquote(Tail(s))

\* str < str, by code points
LexLess(a, b) ==
    \/ Len(a) < Len(b) /\ a = SubSeq(b, 1, Len(a))
    \/ \E k \in 1..Len(a) :
          /\ k <= Len(b)
          /\ SubSeq(a, 1, k - 1) = SubSeq(b, 1, k - 1)
          /\ Ord(a[k]) < Ord(b[k])

-----------------------------------------------------------------------------
(* link_to_file *)

\* check_for_letters.match(post_name): '[a-z]+', re.IGNORECASE, anchored at the start
check_for_letters(post_name) == post_name # <<>> /\ IsLetter(post_name[1])

\* lines 162-166: the slug when it starts with a letter, else None
usable_post_name(post_name) ==
    IF post_name # EmptyStr /\ post_name # None /\ check_for_letters(post_name)
    THEN post_name ELSE None

\* line 170: link.split('?p=')[-1]
after_query(parts) == parts[Len(parts)]

\* line 172: link.split('/')[-2], an IndexError when there is one part only
second_to_last(parts) ==
    IF Len(parts) < 2 THEN Raise("IndexError") ELSE Ok(parts[Len(parts) - 1])

\* line 174: '%s.org' % unquote(name)
org_name(name) ==
    IF name.raised # "none" THEN name ELSE Ok(unquote(name.value) \o <<".", "o", "r", "g">>)

\* lines 168-172: the name taken from the link
name_from_link(link) ==
    IF Contains(link, <<"?", "p", "=">>) THEN Ok(after_query(Split(link, <<"?", "p", "=">>)))
    ELSE second_to_last(Split(link, <<"/">>))

\* the mutant takes the last '/'-separated part instead of the one before it
choose_name_last_part(name, link) ==
    IF name # None THEN org_name(Ok(name))
    ELSE IF link = None THEN Ok(None)
    ELSE IF Contains(link, <<"?", "p", "=">>)
         THEN org_name(Ok(after_query(Split(link, <<"?", "p", "=">>))))
    ELSE org_name(Ok(after_query(Split(link, <<"/">>))))

\* lines 168-179: a None link raises the TypeError that is caught, and the
\* name stays None
choose_name(name, link) ==
    IF name # None THEN org_name(Ok(name))
    ELSE IF link = None THEN Ok(None)
    ELSE org_name(name_from_link(link))

\* link_to_file(link, post_name): the file name of a post, None, or the
\* IndexError that is not caught
link_to_file(link, post_name) == choose_name(usable_post_name(post_name), link)

-----------------------------------------------------------------------------
(* The export document *)

\* an element that is not in the item, and one that has no child node
Absent == <<"<absent>">>

NoChild == <<"<nochild>">>

\* key: (XML) tag_name
key_map ==
    [title |-> "title", link |-> "link", date |-> "pubDate", author |-> "dc_creator",
     id |-> "wp_post_id", text |-> "content_encoded", post_name |-> "wp_post_name"]

\* node.getElementsByTagName(tag_name)[0].firstChild.data, None on
\* IndexError (no such element) and AttributeError (no child)
get_first_child_data(node, tag_name) ==
    IF node[tag_name] = Absent THEN None
    ELSE IF node[tag_name] = NoChild THEN None
    ELSE node[tag_name]

-----------------------------------------------------------------------------
(* html_to_org *)

MARKER == <<"#", "$", "N", "E", "W", "L", "I", "N", "E", "-", "M", "A", "R", "K", "E", "R",
    "$", "#">>

\* proc.communicate(html) with stdout=PIPE and stderr=PIPE: both streams come
\* back as byte strings, an empty one when the process wrote nothing
communicate(proc) == [output |-> proc.stdout, error |-> proc.stderr]

\* the mutant ignores the return code and fails only on error output
html_to_org_ignores_returncode(html, proc) ==
    LET res == communicate(proc)
    IN  IF res.error # EmptyStr THEN Raise("SubprocessError") ELSE Ok(res.output)

\* html_to_org(html): proc is the outcome of the pandoc process
html_to_org(html, proc) ==
    LET res == communicate(proc)
    IN  IF (proc.returncode # 0) \/ (res.error # None)
        THEN Raise("SubprocessError")
        ELSE Ok(res.output)

-----------------------------------------------------------------------------
(* node_to_post *)

\* int(s) succeeds: optional sign and digits, surrounding whitespace allowed
IsInt(s) ==
    LET t == Strip(s)
        d == IF t # <<>> /\ t[1] \in {"+", "-"} THEN Tail(t) ELSE t
    IN  d # <<>> /\ \A i \in 1..Len(d) : IsDigit(d[i])

\* lines 106-110: the progress notice, or the TypeError of int(None)
log_progress(id) ==
    IF id = None THEN Raise("TypeError")
    ELSE IF ~IsInt(id) THEN Ok("debug")
    ELSE IF Strip(id)[Len(Strip(id))] = "0" THEN Ok("info")
    ELSE Ok("quiet")

\* lines 112-118: the body through the converter, '' when there is none
\* lines 113-114: what the converter is given
converter_input(text) == Replace(Replace(text, <<"\r", "\n">>, <<"\n">>), <<"\n">>, MARKER)

\* line 116: the markers become newlines again
restore_newlines(r) ==
    IF r.raised # "none" THEN r ELSE Ok(Replace(r.value, MARKER, <<"\n">>))

\* lines 112-118: the body through the converter, '' when there is none
convert_text(text, proc) ==
    IF text # None THEN restore_newlines(html_to_org(converter_input(text), proc))
    ELSE Ok(EmptyStr)

\* lines 124-130, one category element: acc is [tags, categories]
category_step(acc, element) ==
    LET domain == element.domain
        name   == element.nicename
    IN  IF name # EmptyStr /\ domain # EmptyStr
           /\ (\/ Contains(domain, <<"t", "a", "g">>)
               \/ Contains(domain, <<"c", "a", "t", "e", "g", "o", "r", "y">>))
        THEN IF element.child = NoChild THEN Raise("AttributeError")
             ELSE IF Contains(domain, <<"t", "a", "g">>)
                  THEN Ok([acc EXCEPT !.tags = Append(@, element.child)])
                  ELSE Ok([acc EXCEPT !.categories = Append(@, element.child)])
        ELSE Ok(acc)

\* lines 121-130: the loop over the item's category elements
RECURSIVE collect_categories(_, _)
collect_rest(elements, r) ==
    IF r.raised # "none" THEN r ELSE collect_categories(elements, r.value)

collect_categories(elements, acc) ==
    IF elements = <<>> THEN Ok(acc)
    ELSE collect_rest(Tail(elements), category_step(acc, Head(elements)))

\* lines 101-104: the scalar fields
scalar_fields(node) ==
    [key \in DOMAIN key_map |-> get_first_child_data(node, key_map[key])]

Aborted(e, level) == [raised |-> e, value |-> None, level |-> level]

\* line 132: the post with its labels
post_with_labels(scalar, level, text, labels) ==
    IF labels.raised # "none" THEN Aborted(labels.raised, level)
    ELSE [raised |-> "none", level |-> level,
          value |-> [title |-> scalar.title, link |-> scalar.link, date |-> scalar.date,
                     author |-> scalar.author, id |-> scalar.id, text |-> text,
                     post_name |-> scalar.post_name,
                     tags |-> labels.value.tags,
                     categories |-> labels.value.categories]]

\* lines 120-130, after the body
post_with_text(scalar, level, text, elements) ==
    IF text.raised # "none" THEN Aborted(text.raised, level)
    ELSE post_with_labels(scalar, level, text.value,
             collect_categories(elements, [tags |-> <<>>, categories |-> <<>>]))

\* lines 112-118, after the progress notice
post_with_notice(scalar, noted, elements, proc) ==
    IF noted.raised # "none" THEN Aborted(noted.raised, "none")
    ELSE post_with_text(scalar, noted.value, convert_text(scalar.text, proc), elements)

\* lines 106-110
post_from_fields(scalar, elements, proc) ==
    post_with_notice(scalar, log_progress(scalar.id), elements, proc)

\* node_to_post(node): the post, or the exception that leaves it
node_to_post(node, proc) == post_from_fields(scalar_fields(node), node.category, proc)

-----------------------------------------------------------------------------
(* xml_to_list *)

RECURSIVE SortedSeq(_)
SortedSeq(S) ==
    IF S = {} THEN <<>>
    ELSE LET m == CHOOSE x \in S : \A y \in S : x = y \/ LexLess(x, y)
         IN  <<m>> \o SortedSeq(S \ {m})

\* the mutant drops duplicates but keeps the document's order
RECURSIVE sorted_set_unsorted(_)
sorted_set_unsorted(labels) ==
    IF labels = <<>> THEN <<>>
    ELSE LET rest == sorted_set_unsorted(SubSeq(labels, 1, Len(labels) - 1))
             last == labels[Len(labels)]
         IN  IF \E i \in 1..Len(rest) : rest[i] = last THEN rest ELSE Append(rest, last)

\* sorted(set(labels))
sorted_set(labels) == SortedSeq({labels[i] : i \in DOMAIN labels})

\* the mutant inserts each post at the front
xml_to_list_insert_front(list, post) ==
    <<[post EXCEPT !.tags = sorted_set(@), !.categories = sorted_set(@)]>> \o list

\* lines 147-152: normalise the labels and append the post
xml_to_list_append(list, post) ==
    Append(list, [post EXCEPT !.tags = sorted_set(@), !.categories = sorted_set(@)])

-----------------------------------------------------------------------------
(* parse_date *)

DayNames == <<<<"M", "o", "n">>, <<"T", "u", "e">>, <<"W", "e", "d">>, <<"T", "h",
    "u">>, <<"F", "r", "i">>, <<"S", "a", "t">>, <<"S", "u", "n">>>>

MonthNames ==
    <<<<"J", "a", "n">>, <<"F", "e", "b">>, <<"M", "a", "r">>, <<"A", "p", "r">>, <<"M", "a",
        "y">>, <<"J", "u", "n">>, <<"J", "u", "l">>, <<"A", "u", "g">>, <<"S", "e",
        "p">>, <<"O", "c", "t">>, <<"N", "o", "v">>, <<"D", "e", "c">>>>

IndexIn(names, s) == IF \E i \in 1..Len(names) : names[i] = s
                     THEN CHOOSE i \in 1..Len(names) : names[i] = s ELSE 0

AllDigits(s) == \A i \in 1..Len(s) : IsDigit(s[i])

RECURSIVE Num(_)
Num(s) == IF s = <<>> THEN 0 ELSE 10 * Num(SubSeq(s, 1, Len(s) - 1)) + (Ord(s[Len(s)]) - 48)

RECURSIVE Pad(_, _)
Pad(n, width) == IF width = 0 THEN <<>> ELSE Pad(n \div 10, width - 1) \o <<Chr(48 + (n % 10))>>

\* strptime(s, '%a, %d %b %Y %H:%M:%S') on the fixed-width form the export
\* writes ("Mon, 03 Jan 2011 10:00:00"); anything else is a ValueError
strptime(s) ==
    IF /\ Len(s) = 25
       /\ SubSeq(s, 4, 5) = <<",", " ">> /\ s[8] = " " /\ s[12] = " " /\ s[17] = " "
       /\ s[20] = ":" /\ s[23] = ":"
       /\ IndexIn(DayNames, SubSeq(s, 1, 3)) # 0
       /\ IndexIn(MonthNames, SubSeq(s, 9, 11)) # 0
       /\ AllDigits(SubSeq(s, 6, 7)) /\ AllDigits(SubSeq(s, 13, 16))
       /\ AllDigits(SubSeq(s, 18, 19)) /\ AllDigits(SubSeq(s, 21, 22))
       /\ AllDigits(SubSeq(s, 24, 25))
       /\ Num(SubSeq(s, 6, 7)) \in 1..31 /\ Num(SubSeq(s, 18, 19)) \in 0..23
       /\ Num(SubSeq(s, 21, 22)) \in 0..59 /\ Num(SubSeq(s, 24, 25)) \in 0..61
    THEN Ok([tm_wday |-> IndexIn(DayNames, SubSeq(s, 1, 3)),
             tm_mday |-> Num(SubSeq(s, 6, 7)),
             tm_mon  |-> IndexIn(MonthNames, SubSeq(s, 9, 11)),
             tm_year |-> Num(SubSeq(s, 13, 16)),
             tm_hour |-> Num(SubSeq(s, 18, 19)),
             tm_min  |-> Num(SubSeq(s, 21, 22))])
    ELSE Raise("ValueError")

\* strftime(date_format, t) for the directives the two formats use
RECURSIVE strftime(_, _)
strftime(date_format, t) ==
    IF date_format = <<>> THEN <<>>
    ELSE IF date_format[1] = "%" /\ Len(date_format) >= 2
         THEN LET d == date_format[2]
                  field == CASE d = "Y" -> Pad(t.tm_year, 4)
                             [] d = "m" -> Pad(t.tm_mon, 2)
                             [] d = "d" -> Pad(t.tm_mday, 2)
                             [] d = "a" -> DayNames[t.tm_wday]
                             [] d = "H" -> Pad(t.tm_hour, 2)
                             [] d = "M" -> Pad(t.tm_min, 2)
                             [] OTHER -> <<"%", d>>
              IN  field \o strftime(SubSeq(date_format, 3, Len(date_format)), t)
         ELSE <<date_format[1]>> \o strftime(Tail(date_format), t)

\* parse_date(date, date_format); a None date falls through and returns None
format_time(t, date_format) ==
    IF t.raised # "none" THEN t ELSE Ok(strftime(date_format, t.value))

parse_date(date, date_format) ==
    IF date # None THEN format_time(strptime(Strip(Split(date, <<"+">>)[1])), date_format)
    ELSE Ok(None)

-----------------------------------------------------------------------------
(* The filesystem *)

Exists(f, path) == path \in f.dirs \/ path \in DOMAIN f.files

Mkdir(f, path) == [f EXCEPT !.dirs = @ \cup {path}]

\* os.path.join(a, b)
PathJoin(a, b) ==
    IF b # <<>> /\ b[1] = "/" THEN b
    ELSE IF a # <<>> /\ a[Len(a)] = "/" THEN a \o b
    ELSE a \o <<"/">> \o b

\* the mutant opens for appending: what the file held stays
open_ab(f, path) ==
    [f EXCEPT !.files = [q \in DOMAIN f.files \cup {path} |->
                            IF q \in DOMAIN f.files THEN f.files[q] ELSE <<>>]]

\* open(path, 'wb'): the file exists and is empty afterwards
open_wb(f, path) ==
    [f EXCEPT !.files = [q \in DOMAIN f.files \cup {path} |->
                            IF q = path THEN <<>> ELSE f.files[q]]]

\* org_file.write(data) on the file at path
Write(f, path, data) == [f EXCEPT !.files[path] = @ \o data]

NoHandle == [bound |-> FALSE, path |-> None, closed |-> FALSE]

-----------------------------------------------------------------------------
(* blog_to_org *)

SUBTREE_TEMPLATE(p) ==
    Str(p.stars) \o <<" ">> \o Str(p.title) \o <<" ">> \o Str(p.tags) \o <<"\n">>
    \o Str(p.space) \o <<" :PROPERTIES:\n">>
    \o Str(p.space) \o <<" :POSTID: ">> \o Str(p.id) \o <<"\n">>
    \o Str(p.space) \o <<" :POST_DATE: ">> \o Str(p.date) \o <<"\n">>
    \o Str(p.space) \o <<" :CATEGORY: ">> \o Str(p.categories) \o <<"\n">>
    \o Str(p.space) \o <<" :END:\n">>
    \o <<"\n">>
    \o Str(p.space) \o <<" ">> \o Str(p.text) \o <<"\n">>
    \o <<"\n">>

BUFFER_TEMPLATE(p) ==
    <<"#+POSTID: ">> \o Str(p.id) \o <<"\n">>
    \o <<"#+DATE: ">> \o Str(p.date) \o <<"\n">>
    \o <<"#+OPTIONS: toc:nil num:nil todo:nil pri:nil tags:nil ^:nil TeX:nil\n">>
    \o <<"#+CATEGORY: ">> \o Str(p.categories) \o <<"\n">>
    \o <<"#+TAGS: ">> \o Str(p.tags) \o <<"\n">>
    \o <<"#+TITLE: ">> \o Str(p.title) \o <<"\n">>
    \o <<"\n">>
    \o Str(p.text) \o <<"\n">>
    \o <<"\n">>
    \o <<"\n">>

\* lines 210-213: tags and categories joined in place
join_labels(post, tag_sep) ==
    [post EXCEPT !.tags = IF tag_sep = <<":">> THEN <<":">> \o Join(tag_sep, @) \o <<":">>
                          ELSE Join(tag_sep, @),
                 !.categories = Join(<<",", " ">>, @)]

\* lines 217-218: the body's lines indented in combined mode
reindent(text, level, separate_buffer) ==
    IF ~separate_buffer THEN Replace(text, <<"\n">>, <<"\n", " ">> \o Repeat(" ",
        level)) ELSE text

\* lines 220-222
template_parts(post, level) ==
    [stars |-> Repeat("*", level), space |-> Repeat(" ", level), title |-> post.title,
     tags |-> post.tags, id |-> post.id, date |-> post.date,
     categories |-> post.categories, text |-> post.text]

\* line 223: template % template_parts
fill_template(parts, separate_buffer) ==
    IF separate_buffer THEN BUFFER_TEMPLATE(parts) ELSE SUBTREE_TEMPLATE(parts)

formatted(post, level, separate_buffer) ==
    [raised |-> "none", post |-> post,
     output |-> fill_template(template_parts(post, level), separate_buffer)]

\* lines 215-223; the post keeps what was overwritten before a ValueError
format_dated(post, date, level, separate_buffer) ==
    IF date.raised # "none" THEN [raised |-> date.raised, post |-> post, output |-> None]
    ELSE formatted([post EXCEPT !.date = date.value,
                                !.text = reindent(@, level, separate_buffer)],
                   level, separate_buffer)

\* lines 210-223: the post's fields overwritten with their text, and the
\* filled template
format_post(post, level, separate_buffer) ==
    format_dated(join_labels(post, IF separate_buffer THEN <<",", " ">> ELSE <<":">>),
                 parse_date(post.date, <<"[", "%", "Y", "-", "%", "m", "-", "%", "d", " ", "%",
                     "a", " ", "%", "H", ":", "%", "M", "]">>),
                 level, separate_buffer)

\* line 227: "%s-%s" % (date, name), the date evaluated first
prefixed_name(d, l) ==
    IF d.raised # "none" THEN d
    ELSE IF l.raised # "none" THEN l
    ELSE Ok(Str(d.value) \o <<"-">> \o Str(l.value))

\* lines 226-230: the name of the post's file
post_file_name(post, date_wp_fmt, prefix) ==
    IF prefix
    THEN prefixed_name(parse_date(date_wp_fmt, <<"%", "Y", "-", "%", "m", "-", "%", "d">>),
                       link_to_file(post.link, post.post_name))
    ELSE link_to_file(post.link, post.post_name)

\* the mutant creates the directory when it is missing and then writes the
\* post all the same
write_post_file_always(f, name, file_name, output) ==
    LET g == IF ~Exists(f, name) THEN Mkdir(f, name) ELSE f
    IN  IF file_name = None
        THEN [raised |-> "TypeError", fs |-> g, op |-> "none", path |-> None]
        ELSE LET path == PathJoin(name, file_name)
             IN  [raised |-> "none", fs |-> Write(open_wb(g, path), path, output),
                  op |-> "write", path |-> path]

\* lines 231-236: create the directory, or else write the post's file
write_post_file(f, name, file_name, output) ==
    IF ~Exists(f, name)
    THEN [raised |-> "none", fs |-> Mkdir(f, name), op |-> "mkdir", path |-> None]
    ELSE IF file_name = None
         THEN [raised |-> "TypeError", fs |-> f, op |-> "none", path |-> None]
         ELSE LET path == PathJoin(name, file_name)
              IN  [raised |-> "none", fs |-> Write(open_wb(f, path), path, output),
                   op |-> "write", path |-> path]

\* lines 202-207: blog_to_org before its loop
open_output(f, name, separate_buffer) ==
    IF separate_buffer THEN [fs |-> f, org_file |-> NoHandle]
    ELSE [fs |-> open_wb(f, name \o <<".", "o", "r", "g">>),
          org_file |-> [bound |-> TRUE, path |-> name \o <<".", "o", "r",
              "g">>, closed |-> FALSE]]

\* line 240: org_file.close(); the name is unbound when no file was opened
close_output(handle) ==
    IF ~handle.bound THEN Raise("UnboundLocalError")
    ELSE Ok([handle EXCEPT !.closed = TRUE])

\* what one pass of the loop leaves: the exception, the post as overwritten,
\* the filesystem, the handle, and what was done
Pass(raised, post, f, handle, op, path, data) ==
    [raised |-> raised, post |-> post, fs |-> f, org_file |-> handle,
     op |-> op, path |-> path, data |-> data]

\* lines 234-236: the handle the written file leaves behind
pass_written(fmt, w, f, handle) ==
    IF w.raised # "none" THEN Pass(w.raised, fmt.post, f, handle, "none", None, None)
    ELSE Pass("none", fmt.post, w.fs,
              IF w.op = "write" THEN [bound |-> TRUE, path |-> w.path, closed |-> TRUE]
              ELSE handle,
              w.op, w.path, fmt.output)

\* lines 231-236, once the file name is known
pass_named(fmt, n, f, handle, name) ==
    IF n.raised # "none" THEN Pass(n.raised, fmt.post, f, handle, "none", None, None)
    ELSE pass_written(fmt, write_post_file(f, name, n.value, fmt.output), f, handle)

\* lines 225-238, once the template is filled
pass_formatted(fmt, date_wp_fmt, a, f, handle) ==
    IF fmt.raised # "none" THEN Pass(fmt.raised, fmt.post, f, handle, "none", None, None)
    ELSE IF a.buffer
         THEN pass_named(fmt, post_file_name(fmt.post, date_wp_fmt, a.prefix_date),
                         f, handle, a.out_file)
         ELSE Pass("none", fmt.post, Write(f, handle.path, fmt.output), handle,
                   "write", handle.path, fmt.output)

\* lines 209-238: one pass of blog_to_org's loop
blog_to_org_pass(post, a, f, handle) ==
    pass_formatted(format_post(post, a.level, a.buffer), post.date, a, f, handle)

-----------------------------------------------------------------------------
(* Inputs *)

MaxItems == 2

MaxRuns == 2

MaxCats == 2

OutFile == <<"o", "r", "g", "-", "p", "o", "s", "t", "s">>

Link1 == <<"h", "t", "t", "p", ":", "/", "/", "e", "x", "a", "m", "p", "l", "e", ".", "c", "o",
    "m", "/", "2", "0", "1", "1", "/", "0", "1", "/", "h", "e", "l", "l", "o", "-", "w", "o",
    "r", "l", "d", "/">>

Link2 == <<"h", "t", "t", "p", ":", "/", "/", "e", "x", "a", "m", "p", "l", "e", ".", "c", "o",
    "m", "/", "?", "p", "=", "4", "2">>

Date1 == <<"M", "o", "n", ",", " ", "0", "3", " ", "J", "a", "n", " ", "2", "0", "1", "1", " ",
    "1", "0", ":", "0", "0", ":", "0", "0", " ", "+", "0", "0", "0", "0">>

\* a negative offset is not cut off by split('+') and does not parse
Date2 == <<"T", "u", "e", ",", " ", "0", "4", " ", "J", "a", "n", " ", "2", "0", "1", "1", " ",
    "2", "3", ":", "5", "9", ":", "0", "7", " ", "-", "0", "5", "0", "0">>

TagFoo == [domain |-> <<"p", "o", "s", "t", "_", "t", "a", "g">>, nicename |-> <<"f", "o",
    "o">>, child |-> <<"F", "o", "o">>]

TagBar == [domain |-> <<"p", "o", "s", "t", "_", "t", "a", "g">>, nicename |-> <<"b", "a",
    "r">>, child |-> <<"B", "a", "r">>]

CatNews == [domain |-> <<"c", "a", "t", "e", "g", "o", "r", "y">>, nicename |-> <<"n", "e",
    "w", "s">>, child |-> <<"N", "e", "w", "s">>]

TagEmpty == [domain |-> <<"p", "o", "s", "t", "_", "t", "a", "g">>, nicename |-> <<"f", "o",
    "o">>, child |-> NoChild]

ItemPlain ==
    [title |-> <<"H", "i">>, link |-> Link1, pubDate |-> Date1, dc_creator |-> <<"m", "e">>,
     wp_post_id |-> <<"1", "0">>, content_encoded |-> Absent, wp_post_name |-> Absent,
     category |-> <<TagFoo, CatNews, TagBar, TagFoo>>]

ItemSlug ==
    [ItemPlain EXCEPT !.title = NoChild, !.link = Link2, !.wp_post_id = <<"7">>,
                      !.content_encoded = NoChild, !.wp_post_name = <<"m", "y", "-", "p", "o",
                          "s", "t">>,
                      !.category = <<>>]

ItemBody == [ItemPlain EXCEPT !.wp_post_id = <<"3">>, !.content_encoded = <<"<", "p", ">", "a",
    "\r", "\n", "b", "<", "/", "p", ">">>]

ItemNoId == [ItemPlain EXCEPT !.wp_post_id = Absent, !.category = <<>>]

ItemBadId == [ItemPlain EXCEPT !.wp_post_id = <<"x",
    "1">>, !.pubDate = Absent, !.category = <<CatNews>>]

ItemBadDate == [ItemPlain EXCEPT !.pubDate = Date2, !.category = <<>>]

ItemNoLink == [ItemPlain EXCEPT !.link = Absent, !.category = <<>>]

ItemEmptyCat == [ItemPlain EXCEPT !.category = <<TagEmpty>>]

Items ==
    {ItemPlain, ItemSlug, ItemBody, ItemNoId, ItemBadId, ItemBadDate, ItemNoLink, ItemEmptyCat}

Docs == UNION {[1..n -> Items] : n \in 0..MaxItems}

Levels == {1, 2}

\* parse_args(): --buffer, --prefix-date and --level as given, --out-file
\* left at its default
ArgSets ==
    {[buffer |-> b, prefix_date |-> p, level |-> l, out_file |-> OutFile] :
        b \in BOOLEAN, p \in BOOLEAN, l \in Levels}

EmptyFS == [dirs |-> {}, files |-> <<>>]

InitialFS ==
    {EmptyFS,
     [dirs |-> {}, files |-> (OutFile \o <<".", "o", "r", "g">>) :> <<"o", "l", "d">>],
     [dirs |-> {OutFile}, files |-> <<>>],
     [dirs |-> {OutFile}, files |-> PathJoin(OutFile, <<"h", "e", "l", "l", "o", "-", "w", "o",
         "r", "l", "d", ".", "o", "r", "g">>) :> <<"o", "l", "d">>]}

ReturnCodes == {0, 1}

\* what the process may leave on its streams for the html it was given
ProcOutcomes(html) ==
    {[returncode |-> rc, stdout |-> out, stderr |-> e] :
        rc \in ReturnCodes, out \in {html, EmptyStr}, e \in {EmptyStr, <<"e">>}}

NoProc == [returncode |-> 0, stdout |-> EmptyStr, stderr |-> EmptyStr]

NoConv == [called |-> FALSE, returncode |-> 0, error |-> EmptyStr, output |-> EmptyStr,
           raised |-> "none", returned |-> None]

\* no exception has left main()
NoError == [type |-> "none", from |-> "none"]

Idle == [fn |-> "none"]

Pending == [raised |-> "pending", value |-> None]

-----------------------------------------------------------------------------
(* main() *)

Init ==
    /\ doc \in Docs
    /\ args \in ArgSets
    /\ fs \in InitialFS
    /\ pc = "start"
    /\ run = 1
    /\ idx = 0
    /\ blog = <<>>
    /\ blog_list = <<>>
    /\ org_file = NoHandle
    /\ err = NoError
    /\ conv = NoConv
    /\ fsops = <<>>
    /\ prev = [status |-> "none", fs |-> fs]
    /\ log = <<>>
    /\ call = Idle

\* lines 263-264 and 139-141: the document is parsed, the list is empty
ParseXml ==
    /\ pc = "start"
    /\ pc' = "extract"
    /\ idx' = 1
    /\ blog' = <<>>
    /\ log' = Append(log, <<"warning", "Parsing xml ...">>)
    /\ UNCHANGED <<doc, args, fs, run, blog_list, org_file, err, conv, fsops, prev, call>>

\* does node_to_post reach the converter for this node
ReachesConverter(node) ==
    /\ get_first_child_data(node, key_map.id) # None
    /\ get_first_child_data(node, key_map.text) # None

\* the html node_to_post hands to the converter, if it gets there
HtmlOf(node) ==
    IF ReachesConverter(node) THEN converter_input(node.content_encoded) ELSE EmptyStr

\* lines 143-152: one item of the document
ExtractItem ==
    /\ pc = "extract"
    /\ idx <= Len(doc)
    /\ \E html \in {HtmlOf(doc[idx])}, called \in {ReachesConverter(doc[idx])} :
         \E proc \in IF called THEN ProcOutcomes(html) ELSE {NoProc} :
            \E r \in {node_to_post(doc[idx], proc)}, h \in {html_to_org(html, proc)} :
               /\ conv' = IF called
                          THEN [called |-> TRUE, returncode |-> proc.returncode,
                                error |-> proc.stderr, output |-> proc.stdout,
                                raised |-> h.raised, returned |-> h.value]
                          ELSE conv
               /\ log' = IF r.level \in {"info", "debug"}
                         THEN Append(log, <<r.level, "Processing post">>)
                         ELSE log
               /\ IF r.raised # "none"
                  THEN /\ pc' = "failed"
                       /\ err' = [type |-> r.raised, from |-> "xml_to_list"]
                       /\ UNCHANGED <<idx, blog>>
                  ELSE /\ blog' = xml_to_list_append(blog, r.value)
                       /\ idx' = idx + 1
                       /\ UNCHANGED <<pc, err>>
    /\ UNCHANGED <<doc, args, fs, run, blog_list, org_file, fsops, prev, call>>

\* lines 154 and 264-266: xml_to_list returns its list to main()
ReturnBlog ==
    /\ pc = "extract"
    /\ idx > Len(doc)
    /\ pc' = "extracted"
    /\ blog_list' = blog
    /\ log' = Append(log, <<"warning", "Writing posts...">>)
    /\ UNCHANGED <<doc, args, fs, run, idx, blog, org_file, err, conv, fsops, prev, call>>

\* lines 194-207: blog_to_org up to its loop
OpenOutput ==
    /\ pc = "extracted"
    /\ \E o \in {open_output(fs, args.out_file, args.buffer)} :
          /\ fs' = o.fs
          /\ org_file' = o.org_file
    /\ pc' = "render"
    /\ idx' = 1
    /\ UNCHANGED <<doc, args, run, blog, blog_list, err, conv, fsops, prev, log, call>>

\* lines 209-238: one post of the list
RenderPost ==
    /\ pc = "render"
    /\ idx <= Len(blog_list)
    /\ \E r \in {blog_to_org_pass(blog_list[idx], args, fs, org_file)} :
          /\ blog_list' = [blog_list EXCEPT ![idx] = r.post]
          /\ fs' = r.fs
          /\ org_file' = r.org_file
          /\ IF r.raised # "none"
             THEN /\ pc' = "failed"
                  /\ err' = [type |-> r.raised, from |-> "blog_to_org"]
                  /\ UNCHANGED <<fsops, idx>>
             ELSE /\ fsops' = Append(fsops,
                          [post |-> idx, existed |-> Exists(fs, args.out_file),
                           op |-> r.op, path |-> r.path, data |-> r.data])
                  /\ idx' = idx + 1
                  /\ UNCHANGED <<pc, err>>
    /\ UNCHANGED <<doc, args, run, blog, conv, prev, log, call>>

\* lines 240 and 270: the final close, and main() is done
CloseOutput ==
    /\ pc = "render"
    /\ idx > Len(blog_list)
    /\ \E c \in {close_output(org_file)} :
          IF c.raised # "none"
          THEN /\ pc' = "failed"
               /\ err' = [type |-> c.raised, from |-> "blog_to_org"]
               /\ UNCHANGED <<org_file, log>>
          ELSE /\ pc' = "done"
               /\ org_file' = c.value
               /\ log' = Append(log, <<"warning", "Done!">>)
               /\ UNCHANGED err
    /\ UNCHANGED <<doc, args, fs, run, idx, blog, blog_list, conv, fsops, prev, call>>

\* the operator runs the program again on the same export and options
Rerun ==
    /\ pc \in {"done", "failed"}
    /\ run < MaxRuns
    /\ run' = run + 1
    /\ prev' = [status |-> pc, fs |-> fs]
    /\ pc' = "start"
    /\ idx' = 0
    /\ blog' = <<>>
    /\ blog_list' = <<>>
    /\ org_file' = NoHandle
    /\ err' = NoError
    /\ conv' = NoConv
    /\ fsops' = <<>>
    /\ log' = <<>>
    /\ UNCHANGED <<doc, args, fs, call>>

Next == ParseXml \/ ExtractItem \/ ReturnBlog \/ OpenOutput \/ RenderPost \/ CloseOutput \/ Rerun

Spec == Init /\ [][Next]_vars

-----------------------------------------------------------------------------
(* link_to_file on its own *)

Links ==
    {None, Link1, Link2, <<"h", "t", "t", "p", ":", "/", "/", "e", ".", "c", "o", "m", "/",
        "?", "p", "=", "1", "&", "q", "=", "?", "p", "=", "2">>, <<"h", "t", "t", "p", ":",
        "/", "/", "e", ".", "c", "o", "m", "/", "c", "a", "f", "%", "4", "1", "/">>,
     <<"h", "t", "t", "p", ":", "/", "/", "e", ".", "c", "o", "m", "/", "p", "o", "s",
         "t">>, <<"a", "b", "c">>, <<"/", "x", "/">>, <<"h", "t", "t", "p", ":", "/", "/", "e",
         ".", "c", "o", "m", "/", "1", "0", "0", "%", "/">>, <<"a", "/", "b", "%", "2", "F",
         "c", "/">>}

PostNames ==
    {None, EmptyStr, <<"h", "e", "l", "l", "o">>, <<"9", "l", "i", "v", "e", "s">>, <<"Z", "e",
        "d">>, <<"m", "y", "%", "4", "1", "p", "o", "s", "t">>, <<"-", "d", "a", "s",
        "h">>, <<"%", "e", "4", "x">>}

\* main() is not running
MainIdle ==
    /\ doc = <<>>
    /\ args = [buffer |-> FALSE, prefix_date |-> FALSE, level |-> 1, out_file |-> OutFile]
    /\ fs = EmptyFS
    /\ pc = "idle"
    /\ run = 0
    /\ idx = 0
    /\ blog = <<>>
    /\ blog_list = <<>>
    /\ org_file = NoHandle
    /\ err = NoError
    /\ conv = NoConv
    /\ fsops = <<>>
    /\ prev = [status |-> "none", fs |-> EmptyFS]
    /\ log = <<>>

InitLink ==
    /\ MainIdle
    /\ \E link \in Links, post_name \in PostNames :
          call = [fn |-> "link_to_file", link |-> link, post_name |-> post_name,
                  ret |-> Pending]

CallLinkToFile ==
    /\ call.fn = "link_to_file"
    /\ call.ret = Pending
    /\ call' = [call EXCEPT !.ret = link_to_file(call.link, call.post_name)]
    /\ UNCHANGED mainVars

NextLink == CallLinkToFile

SpecLink == InitLink /\ [][NextLink]_vars

-----------------------------------------------------------------------------
(* the labels of one item: node_to_post, then xml_to_list's normalisation *)

Domains == {EmptyStr, <<"p", "o", "s", "t", "_", "t", "a", "g">>, <<"c", "a", "t", "e", "g",
    "o", "r", "y">>, <<"n", "a", "v", "_", "m", "e", "n", "u">>, <<"c", "a", "t", "e", "g",
    "o", "r", "y", "_", "t", "a", "g">>}

Nicenames == {EmptyStr, <<"f", "o", "o">>}

Children == {NoChild, <<"F", "o", "o">>, <<"B", "a", "r">>}

CatElements ==
    {[domain |-> d, nicename |-> n, child |-> c] :
        d \in Domains, n \in Nicenames, c \in Children}

CatLists == UNION {[1..n -> CatElements] : n \in 0..MaxCats}

InitLabels ==
    /\ MainIdle
    /\ \E elements \in CatLists :
          call = [fn |-> "xml_to_list", node |-> [ItemPlain EXCEPT !.category = elements],
                  post |-> Pending, list |-> <<>>]

\* line 145: post = node_to_post(node)
CallNodeToPost ==
    /\ call.fn = "xml_to_list"
    /\ call.post = Pending
    /\ \E r \in {node_to_post(call.node, NoProc)} :
          call' = [call EXCEPT !.post = [raised |-> r.raised, value |-> r.value]]
    /\ UNCHANGED mainVars

\* lines 147-152
AppendPost ==
    /\ call.fn = "xml_to_list"
    /\ call.post.raised = "none"
    /\ call.list = <<>>
    /\ call' = [call EXCEPT !.list = xml_to_list_append(<<>>, call.post.value)]
    /\ UNCHANGED mainVars

NextLabels == CallNodeToPost \/ AppendPost

SpecLabels == InitLabels /\ [][NextLabels]_vars

-----------------------------------------------------------------------------
(* Properties *)

\* xml_to_list has returned its list in this run
Extracted ==
    \/ pc \in {"extracted", "render", "done"}
    \/ pc = "failed" /\ err.from = "blog_to_org"

\* C1: whenever the converter exits with status 0 and leaves its error
\* stream empty, html_to_org raises nothing and returns what the process
\* wrote to its output stream.
C1_CleanExitReturnsOutput ==
    (conv.called /\ conv.returncode = 0 /\ conv.error = EmptyStr)
        => (conv.raised = "none" /\ conv.returned = conv.output)

\* C2: once a converter invocation has exited with a non-zero status, the run
\* has failed with the conversion error leaving xml_to_list, and the run has
\* opened, created and written nothing: the filesystem is as it was when
\* the run started, no handle is bound and blog_to_org did nothing.
C2_ConverterFailureAborts ==
    (conv.called /\ conv.returncode # 0)
        => /\ pc = "failed"
           /\ err = [type |-> "SubprocessError", from |-> "xml_to_list"]
           /\ fs = prev.fs
           /\ fsops = <<>>
           /\ org_file = NoHandle
           /\ blog_list = <<>>

\* the second item's converter run exits non-zero after a first item was
\* extracted, in separate-file mode
C2_Witness ==
    /\ conv.called /\ conv.returncode # 0
    /\ pc = "failed" /\ idx = 2 /\ Len(blog) = 1
    /\ args.buffer

\* a scalar field of the node is absent or has no text child
MissingScalar(node) ==
    \E key \in DOMAIN key_map : node[key_map[key]] \in {Absent, NoChild}

\* C3: an item with an absent or childless scalar field never makes
\* node_to_post raise because of that field: when extraction stops at such
\* an item, the exception is the converter's or a category element's.
C3_MissingFieldNeverAborts ==
    (pc = "failed" /\ err.from = "xml_to_list" /\ MissingScalar(doc[idx]))
        => err.type \in {"SubprocessError", "AttributeError"}

\* C4: when xml_to_list has returned, its list has one record per item of
\* the document, and the i-th record holds the scalar fields of the i-th item.
C4_OneRecordPerItemInOrder ==
    Extracted =>
        /\ Len(blog) = Len(doc)
        /\ \A i \in 1..Len(blog) :
              /\ blog[i].title = get_first_child_data(doc[i], "title")
              /\ blog[i].link = get_first_child_data(doc[i], "link")
              /\ blog[i].date = get_first_child_data(doc[i], "pubDate")
              /\ blog[i].author = get_first_child_data(doc[i], "dc_creator")
              /\ blog[i].id = get_first_child_data(doc[i], "wp_post_id")
              /\ blog[i].post_name = get_first_child_data(doc[i], "wp_post_name")

\* xml_to_list has returned two records built from two different items
C4_Witness ==
    /\ pc = "extracted"
    /\ Len(doc) = 2 /\ Len(blog) = 2
    /\ doc[1] # doc[2]
    /\ blog[1].id # blog[2].id

\* a category element that the item's classification accepts
Qualifies(e) ==
    /\ e.nicename # EmptyStr
    /\ e.domain # EmptyStr
    /\ (Contains(e.domain, <<"t", "a", "g">>) \/ Contains(e.domain, <<"c", "a", "t", "e", "g",
                                                 "o", "r", "y">>))

IsTag(e) == Qualifies(e) /\ Contains(e.domain, <<"t", "a", "g">>)

IsCategory(e) == Qualifies(e) /\ ~Contains(e.domain, <<"t", "a", "g">>)

\* the text of every element of the list, in order
TextOf(elements) == [i \in 1..Len(elements) |-> elements[i].child]

\* no duplicates, ascending
StrictlyAscending(labels) ==
    \A i \in 1..Len(labels) : \A j \in 1..Len(labels) : i < j => LexLess(labels[i], labels[j])

Range(seq) == {seq[i] : i \in 1..Len(seq)}

\* C5: every record xml_to_list appends has tags and categories without
\* duplicates, in ascending order, holding exactly the labels node_to_post
\* collected for the item, which are the texts of its tag and category
\* elements.
C5_LabelsSortedAndUnique ==
    \A i \in 1..Len(call.list) :
        /\ StrictlyAscending(call.list[i].tags)
        /\ StrictlyAscending(call.list[i].categories)
        /\ Range(call.list[i].tags) = Range(call.post.value.tags)
        /\ Range(call.list[i].categories) = Range(call.post.value.categories)
        /\ Range(call.list[i].tags) = {e.child : e \in {x \in Range(call.node.category) : IsTag(x)}}
        /\ Range(call.list[i].categories) =
              {e.child : e \in {x \in Range(call.node.category) : IsCategory(x)}}

\* the item lists Foo before Bar, and the record holds Bar before Foo
C5_Witness ==
    /\ call.fn = "xml_to_list"
    /\ Len(call.list) = 1
    /\ Len(call.node.category) = 2
    /\ call.post.value.tags = <<<<"F", "o", "o">>, <<"B", "a", "r">>>>
    /\ call.list[1].tags = <<<<"B", "a", "r">>, <<"F", "o", "o">>>>

\* C6: node_to_post raises nothing for any category element, and the tags
\* (categories) it collects are the texts of the accepted elements whose
\* domain contains "tag" (does not), in document order; every other element
\* adds to neither.
C6_EachElementInOneBucket ==
    (call.fn = "xml_to_list" /\ call.post # Pending)
        => /\ call.post.raised = "none"
           /\ call.post.value.tags = TextOf(SelectSeq(call.node.category, IsTag))
           /\ call.post.value.categories = TextOf(SelectSeq(call.node.category, IsCategory))

CombinedPath == args.out_file \o <<".", "o", "r", "g">>

\* the subtrees of the records xml_to_list returned, one after the other
RECURSIVE Subtrees(_)
Subtrees(posts) ==
    IF posts = <<>> THEN <<>>
    ELSE format_post(Head(posts), args.level, FALSE).output \o Subtrees(Tail(posts))

\* C7: in combined mode, when blog_to_org has returned, <out_file>.org holds
\* the subtrees of the records in input order and nothing else, whatever it
\* held before; each record was written once, in order; with no records the
\* file exists and is empty; and a run that follows a completed run leaves
\* the filesystem as that run left it.
C7_CombinedFileIsTheSubtrees ==
    (pc = "done" /\ ~args.buffer)
        => /\ CombinedPath \in DOMAIN fs.files
           /\ fs.files[CombinedPath] = Subtrees(blog)
           /\ Len(fsops) = Len(blog)
           /\ \A k \in 1..Len(fsops) :
                 /\ fsops[k].post = k
                 /\ fsops[k].op = "write"
                 /\ fsops[k].path = CombinedPath
           /\ (blog = <<>> => fs.files[CombinedPath] = <<>>)
           /\ (prev.status = "done" => fs = prev.fs)
           /\ org_file = [bound |-> TRUE, path |-> CombinedPath, closed |-> TRUE]

\* a combined run over two records has completed on a file that held text
C7_Witness ==
    /\ pc = "done" /\ ~args.buffer
    /\ Len(blog) = 2 /\ blog[1] # blog[2]
    /\ CombinedPath \in DOMAIN prev.fs.files
    /\ prev.fs.files[CombinedPath] # <<>>
    /\ fs.files[CombinedPath] # prev.fs.files[CombinedPath]

\* C8: in separate-file mode every post whose pass completed was written to
\* its file exactly when the output directory existed at that pass: with the
\* directory missing when the run started, the first post created the
\* directory and opened and wrote no file, and every later post was written;
\* with the directory there at the start every post was written.  A written
\* post is in <out_file>/<name>.
C8_WrittenIffDirectoryExisted ==
    args.buffer =>
        /\ \A k \in 1..Len(fsops) :
              /\ fsops[k].post = k
              /\ (fsops[k].op = "write") <=> fsops[k].existed
              /\ (fsops[k].op = "mkdir") <=> ~fsops[k].existed
              /\ fsops[k].existed <=> (Exists(prev.fs, args.out_file) \/ k >= 2)
              /\ fsops[k].op = "write" =>
                    /\ fsops[k].path \in DOMAIN fs.files
                    /\ fsops[k].path =
                          args.out_file \o <<"/">>
                          \o post_file_name(blog[k], blog[k].date, args.prefix_date).value
        /\ (Len(fsops) >= 1 /\ ~Exists(prev.fs, args.out_file)) =>
              /\ args.out_file \in fs.dirs
              /\ (Len(fsops) = 1 => (fs.files = prev.fs.files /\ ~org_file.bound))
        /\ (Len(fsops) >= 1 /\ fsops[Len(fsops)].op = "write") =>
              fs.files[fsops[Len(fsops)].path] = fsops[Len(fsops)].data

\* the directory was missing: the first post made it, the second was written
C8_Witness ==
    /\ args.buffer
    /\ ~Exists(prev.fs, args.out_file)
    /\ Len(fsops) = 2
    /\ fsops[1].op = "mkdir"
    /\ fsops[2].op = "write"

\* a record blog_to_org can name and date
WellFormed(post) ==
    /\ post.link # None
    /\ post.date # None
    /\ parse_date(post.date, <<"%", "Y", "-", "%", "m", "-", "%", "d">>).raised = "none"
    /\ link_to_file(post.link, post.post_name).raised = "none"

\* C10: in separate-file mode, on well-formed records, blog_to_org does not
\* fail (no filesystem operation fails here): not on an empty list, not on
\* one record, and not at the final close.
C10_SeparateModeReturns ==
    (args.buffer /\ \A i \in 1..Len(blog) : WellFormed(blog[i]))
        => ~(pc = "failed" /\ err.from = "blog_to_org")

\* the slug is there and starts with a letter
UsableSlug(post_name) ==
    post_name # None /\ post_name # EmptyStr /\ IsLetter(post_name[1])

\* where "?p=" starts in the link
QueryMarks(link) == {k \in 1..(Len(link) - 2) : SubSeq(link, k, k + 2) = <<"?", "p", "=">>}

\* where the link has a "/"
Slashes(link) == {k \in 1..Len(link) : link[k] = "/"}

\* C9: link_to_file returns the percent-decoded slug plus ".org" when the
\* slug is non-null, non-empty and starts with a letter; otherwise, for a
\* link, the decoded text after the (last) "?p=" plus ".org" when the link
\* has one, else the decoded text between its last two "/" plus ".org"; the
\* two examples give hello-world.org and 42.org.
C9_FileNameFromSlugOrLink ==
    (call.fn = "link_to_file" /\ call.ret # Pending) =>
        /\ UsableSlug(call.post_name) =>
              call.ret = Ok(unquote(call.post_name) \o <<".", "o", "r", "g">>)
        /\ (~UsableSlug(call.post_name) /\ call.link # None /\ QueryMarks(call.link) # {}) =>
              \E k \in QueryMarks(call.link) :
                 /\ \A j \in QueryMarks(call.link) : j <= k
                 /\ call.ret = Ok(unquote(SubSeq(call.link, k + 3, Len(call.link))) \o <<".",
                     "o", "r", "g">>)
        /\ (/\ ~UsableSlug(call.post_name) /\ call.link # None
            /\ QueryMarks(call.link) = {} /\ Slashes(call.link) # {}) =>
              \E j \in Slashes(call.link) :
                 /\ \A m \in Slashes(call.link) : m <= j
                 /\ \E i \in 0..(j - 1) :
                       /\ i = 0 \/ i \in Slashes(call.link)
                       /\ \A m \in Slashes(call.link) : m <= i \/ m = j
                       /\ call.ret = Ok(unquote(SubSeq(call.link, i + 1, j - 1)) \o <<".", "o",
                           "r", "g">>)
        /\ (call.link = Link1 /\ call.post_name \in {None, EmptyStr}) =>
              call.ret = Ok(<<"h", "e", "l", "l", "o", "-", "w", "o", "r", "l", "d", ".", "o",
                  "r", "g">>)
        /\ (call.link = Link2 /\ call.post_name \in {None, EmptyStr}) =>
              call.ret = Ok(<<"4", "2", ".", "o", "r", "g">>)
        /\ (call.link = <<"h", "t", "t", "p", ":", "/", "/", "e", ".", "c", "o", "m", "/", "c",
            "a", "f", "%", "4", "1", "/">> /\ call.post_name = <<"9", "l", "i", "v", "e",
            "s">>) =>
              call.ret = Ok(<<"c", "a", "f", "A", ".", "o", "r", "g">>)

\* a slug that starts with a digit is passed over and the name comes from
\* the link's second-to-last part
C9_Witness ==
    /\ call.fn = "link_to_file"
    /\ call.link = Link1
    /\ call.post_name = <<"9", "l", "i", "v", "e", "s">>
    /\ call.ret = Ok(<<"h", "e", "l", "l", "o", "-", "w", "o", "r", "l", "d", ".", "o", "r",
        "g">>)

====
